---- MODULE Spec2Model ----
(***************************************************************************)
(* A model of pysis.cubefile.CubeFile: the decoding of an ISIS cube file   *)
(* (band-sequential and tiled layouts) and the pixel transforms that work  *)
(* on the decoded array, together with the tables of pysis.constants.      *)
(*                                                                         *)
(* Names are bound as the module evidently intends them: `np` in           *)
(* constants.py is the numpy module imported there, and                    *)
(* `self.SPECIAL_PIXELS` in CubeFile.specials is the SPECIAL_PIXELS table  *)
(* imported on line 9 of cubefile.py.                                      *)
(*                                                                         *)
(* A file is a sequence of bytes.  An array is a record                    *)
(*   [dtype |-> [name, order], shape |-> <<bands, lines, samples>>,        *)
(*    v |-> sequence of bands, each a sequence of lines, each a sequence   *)
(*          of elements].                                                  *)
(* An element of an integer array is an integer.  An element of a float    *)
(* array is a record [k, v, u]:                                            *)
(*   k = "fin": the integer-valued number v                                *)
(*   k = "ext": the finite number of sign v whose magnitude is u units in  *)
(*              the last place below the largest finite magnitude of the   *)
(*              cube's float format (the ISIS sentinels and Max)           *)
(*   k = "inf": the infinity of sign v;   k = "nan": not-a-number          *)
(***************************************************************************)
EXTENDS Integers, Sequences, FiniteSets, TLC

VARIABLES
    file,     \* the bytes of the cube file on disk
    label,    \* what pvl.load yields for the file's label
    labelOK,  \* whether pvl.load parses the label at all
    build,    \* the interpreter and platform: [py3, native]
    pc,       \* "start", "loaded" (constructor returned), "failed" (it raised)
    err,      \* the exception the last call raised, or "none"
    data,     \* self.data
    fp,       \* the byte stream: [owner, closed, pos]
    ret,      \* what the last transform call returned
    lastOp,   \* the last call made
    scalings  \* how many in-place scalings have changed self.data

vars == <<lastOp, pc, err, scalings, file, label, labelOK, build, fp, data, ret>>

(***************************************************************************)
(* Bounds of the model.                                                    *)
(***************************************************************************)
MaxBands == 2
MaxLines == 3
MaxSamples == 3
MaxTile == 2
MaxStartByte == 2
MaxShort == 2
MaxPix == 2
MaxScalings == 1

(***************************************************************************)
(* Small helpers.                                                          *)
(***************************************************************************)
Min2(a, b) == IF a < b THEN a ELSE b

RECURSIVE Pow(_, _)
Pow(b, e) == IF e = 0 THEN 1 ELSE b * Pow(b, e - 1)

Rev(s) == [i \in 1..Len(s) |-> s[Len(s) + 1 - i]]

RECURSIVE Flatten(_)
Flatten(ss) == IF ss = <<>> THEN <<>> ELSE Head(ss) \o Flatten(Tail(ss))

None == [none |-> TRUE]

Raise(e) == [ok |-> FALSE, err |-> e]

(***************************************************************************)
(* pysis.constants: the tables.                                            *)
(***************************************************************************)
NaN == [k |-> "nan", v |-> 0, u |-> 0]
Inf(s) == [k |-> "inf", v |-> s, u |-> 0]
Fin(n) == [k |-> "fin", v |-> n, u |-> 0]
Ext(s, u) == [k |-> "ext", v |-> s, u |-> u]
Other == [k |-> "other", v |-> 0, u |-> 0]

\* An IEEE-754 binary32 value from its four bytes, most significant first.
F4FromBytes(b) ==
    LET s == IF b[1] >= 128 THEN -1 ELSE 1
        e == (b[1] % 128) * 2 + (b[2] \div 128)
        m == (b[2] % 128) * 65536 + b[3] * 256 + b[4]
        p == e - 127
        sig == 8388608 + m
    IN  IF e = 255 THEN (IF m = 0 THEN Inf(s) ELSE NaN)
        ELSE IF e = 0 /\ m = 0 THEN Fin(0)
        ELSE IF e = 254 /\ m >= 8388602 THEN Ext(s, 8388607 - m)
        ELSE IF p >= 0 /\ p <= 23 /\ sig % Pow(2, 23 - p) = 0
             THEN Fin(s * (sig \div Pow(2, 23 - p)))
        ELSE Other

\* An IEEE-754 binary64 value from its eight bytes, most significant first.
F8FromBytes(b) ==
    LET s == IF b[1] >= 128 THEN -1 ELSE 1
        e == (b[1] % 128) * 16 + (b[2] \div 16)
        mh == (b[2] % 16) * 65536 + b[3] * 256 + b[4]
        lowZero == \A i \in 5..8 : b[i] = 0
        p == e - 1023
        sig == 1048576 + mh
    IN  IF e = 2047 THEN (IF mh = 0 /\ lowZero THEN Inf(s) ELSE NaN)
        ELSE IF e = 0 /\ mh = 0 /\ lowZero THEN Fin(0)
        ELSE IF e = 2046 /\ mh = 1048575 /\ (\A i \in 5..7 : b[i] = 255) /\ b[8] >= 250
             THEN Ext(s, 255 - b[8])
        ELSE IF lowZero /\ p >= 0 /\ p <= 20 /\ sig % Pow(2, 20 - p) = 0
             THEN Fin(s * (sig \div Pow(2, 20 - p)))
        ELSE Other

\* A variant that reads the patterns least significant byte first.
_make_num_LittleEndian(num, dtype) ==
    IF dtype = ">f4" THEN F4FromBytes(Rev(num)) ELSE F8FromBytes(Rev(num))

\* numpy.fromstring(num, dtype)[0] for the big-endian float dtypes.
_make_num(num, dtype) ==
    IF dtype = ">f4" THEN F4FromBytes(num) ELSE F8FromBytes(num)

\* numpy.finfo(t).max: the largest finite value of the format.
finfo_max == Ext(1, 0)

SPECIAL_PIXELS ==
    [UnsignedByte |->
        [Min |-> 1, Null |-> 0, Lrs |-> 0, Lis |-> 0,
         His |-> 255, Hrs |-> 255, Max |-> 254],
     UnsignedWord |->
        [Min |-> 3, Null |-> 0, Lrs |-> 1, Lis |-> 2,
         His |-> 65534, Hrs |-> 65535, Max |-> 65523],
     SignedWord |->
        [Min |-> -32763, Null |-> -32768, Lrs |-> -32767, Lis |-> -32766,
         His |-> -32765, Hrs |-> -32764, Max |-> 32767],
     SignedInteger |->
        [Min |-> -8388608, Null |-> -8388613, Lrs |-> -8388612,
         Lis |-> -8388611, His |-> -8388610, Hrs |-> -8388609,
         Max |-> 2147483647],
     Real |->
        [Min |-> _make_num(<<255, 127, 255, 250>>, ">f4"),
         Null |-> _make_num(<<255, 127, 255, 251>>, ">f4"),
         Lrs |-> _make_num(<<255, 127, 255, 252>>, ">f4"),
         Lis |-> _make_num(<<255, 127, 255, 253>>, ">f4"),
         His |-> _make_num(<<255, 127, 255, 254>>, ">f4"),
         Hrs |-> _make_num(<<255, 127, 255, 255>>, ">f4"),
         Max |-> finfo_max],
     Double |->
        [Min |-> _make_num(<<255, 239, 255, 255, 255, 255, 255, 250>>, ">f8"),
         Null |-> _make_num(<<255, 239, 255, 255, 255, 255, 255, 251>>, ">f8"),
         Lrs |-> _make_num(<<255, 239, 255, 255, 255, 255, 255, 252>>, ">f8"),
         Lis |-> _make_num(<<255, 239, 255, 255, 255, 255, 255, 253>>, ">f8"),
         His |-> _make_num(<<255, 239, 255, 255, 255, 255, 255, 254>>, ">f8"),
         Hrs |-> _make_num(<<255, 239, 255, 255, 255, 255, 255, 255>>, ">f8"),
         Max |-> finfo_max]]

PIXEL_TYPES ==
    [UnsignedByte |-> "uint8", SignedByte |-> "int8",
     UnsignedWord |-> "uint16", SignedWord |-> "int16",
     UnsignedInteger |-> "uint32", SignedInteger |-> "int32",
     Real |-> "float32", Double |-> "float64"]

BYTE_ORDERS == [NoByteOrder |-> "=", Lsb |-> "<", Msb |-> ">"]

(***************************************************************************)
(* numpy dtypes.                                                           *)
(***************************************************************************)
itemsize(name) ==
    CASE name \in {"uint8", "int8"} -> 1
      [] name \in {"uint16", "int16"} -> 2
      [] name \in {"uint32", "int32", "float32"} -> 4
      [] name = "float64" -> 8

IsFloat(name) == name \in {"float32", "float64"}

IsSigned(name) == name \in {"int8", "int16", "int32"}

\* dtype.newbyteorder(order): "=" is the platform's order, and a one-byte
\* type has none.
newbyteorder(name, order) ==
    [name |-> name,
     order |-> IF itemsize(name) = 1 THEN "|"
               ELSE IF order = "=" THEN build.native ELSE order]

float64 == [name |-> "float64", order |-> build.native]

\* The integer of a two's-complement or unsigned field, most significant
\* byte first.
RECURSIVE UIntFromBytes(_)
UIntFromBytes(b) ==
    IF b = <<>> THEN 0
    ELSE 256 * UIntFromBytes(SubSeq(b, 1, Len(b) - 1)) + b[Len(b)]

IntFromBytes(b, signed) ==
    IF signed /\ b[1] >= 128
    THEN UIntFromBytes(<<b[1] - 256>> \o Tail(b))
    ELSE UIntFromBytes(b)

\* One element of dtype dt from its bytes as they lie in the file.
ElementFromBytes(bytes, dt) ==
    LET b == IF dt.order = "<" THEN Rev(bytes) ELSE bytes
    IN  CASE dt.name = "float32" -> F4FromBytes(b)
          [] dt.name = "float64" -> F8FromBytes(b)
          [] OTHER -> IntFromBytes(b, IsSigned(dt.name))

(***************************************************************************)
(* The label's properties (cubefile.py, lines 181-250).                    *)
(***************************************************************************)
bands == label.Bands
lines == label.Lines
samples == label.Samples
format == label.Format
tile_lines == IF format # "Tile" THEN None ELSE label.TileLines
tile_samples == IF format # "Tile" THEN None ELSE label.TileSamples
base == label.Base
multiplier == label.Multiplier
\* A variant that takes the label's 1-indexed start byte as the offset.
start_byte_unadjusted == label.StartByte

start_byte == label.StartByte - 1
shape == <<bands, lines, samples>>
size == bands * lines * samples

\* dtype: the byte order is looked up first, then the pixel type; a name
\* missing from its table raises KeyError.
dtype ==
    IF label.ByteOrder \notin DOMAIN BYTE_ORDERS THEN Raise("KeyError")
    ELSE IF label.Type \notin DOMAIN PIXEL_TYPES THEN Raise("KeyError")
    ELSE [ok |-> TRUE,
          dt |-> newbyteorder(PIXEL_TYPES[label.Type], BYTE_ORDERS[label.ByteOrder])]

specials ==
    IF label.Type \notin DOMAIN SPECIAL_PIXELS THEN Raise("KeyError")
    ELSE [ok |-> TRUE, t |-> SPECIAL_PIXELS[label.Type]]

(***************************************************************************)
(* numpy: reading and reshaping.                                           *)
(***************************************************************************)
\* A variant that fills a short read with zeros instead of returning fewer
\* elements.
fromfile_padded(pos, dt, count) ==
    LET w == itemsize(dt.name)
    IN  [a |-> [i \in 1..count |->
                  IF pos + i * w <= Len(file)
                  THEN ElementFromBytes(SubSeq(file, pos + (i - 1) * w + 1, pos + i * w), dt)
                  ELSE 0],
         pos |-> pos + count * w]

\* np.fromfile(stream, dt, count) with the stream at byte pos: as many whole
\* elements as the file still holds, at most count; a short file is not an
\* error here.
fromfile(pos, dt, count) ==
    LET w == itemsize(dt.name)
        avail == IF pos >= Len(file) THEN 0 ELSE (Len(file) - pos) \div w
        n == Min2(count, avail)
    IN  [a |-> [i \in 1..n |->
                  ElementFromBytes(SubSeq(file, pos + (i - 1) * w + 1, pos + i * w), dt)],
         pos |-> pos + n * w]

\* The rows of a flat sequence cut into pieces of n elements.
RECURSIVE Rows(_, _)
Rows(flat, n) ==
    IF flat = <<>> THEN <<>>
    ELSE <<SubSeq(flat, 1, n)>> \o Rows(SubSeq(flat, n + 1, Len(flat)), n)

\* flat.reshape((r, c)), row-major; numpy raises ValueError when the sizes
\* differ.
reshape2(flat, r, c) ==
    IF Len(flat) # r * c THEN Raise("ValueError")
    ELSE [ok |-> TRUE, v |-> Rows(flat, c)]

\* flat.reshape((b, l, s)), row-major.
reshape3(flat, shp) ==
    IF Len(flat) # shp[1] * shp[2] * shp[3] THEN Raise("ValueError")
    ELSE [ok |-> TRUE,
          v |-> LET planes == Rows(flat, shp[2] * shp[3])
                IN  [b \in 1..shp[1] |-> Rows(planes[b], shp[3])]]

\* range(0, stop, step) as a sequence.
RECURSIVE range(_, _, _)
range(start, stop, step) ==
    IF start >= stop THEN <<>> ELSE <<start>> \o range(start + step, stop, step)

(***************************************************************************)
(* The decoders (cubefile.py, lines 256-298).                              *)
(***************************************************************************)
_parse_band_sequential_data(pos) ==
    LET t == dtype
        rd == fromfile(pos, t.dt, size)
        r == reshape3(rd.a, shape)
    IN  IF ~t.ok THEN t
        ELSE IF ~r.ok THEN r
        ELSE [ok |-> TRUE, pos |-> rd.pos,
              data |-> [dtype |-> t.dt, shape |-> shape, v |-> r.v]]

\* np.empty(shape): the cells hold whatever the allocation held.
Uninit == [k |-> "uninit", v |-> 0, u |-> 0]

empty(shp) == [b \in 1..shp[1] |-> [l \in 1..shp[2] |-> [s \in 1..shp[3] |-> Uninit]]]

\* chunk[:] = tile[:chunk_lines, :chunk_samples], where chunk is
\* band[line:line_end, sample:sample_end]; a slice is clipped to the array.
StoreChunk(band, tile, line, sample) ==
    LET line_end == line + tile_lines
        sample_end == sample + tile_samples
        chunk_lines == Min2(line_end, lines) - line
        chunk_samples == Min2(sample_end, samples) - sample
    IN  [l \in 1..lines |-> [s \in 1..samples |->
            IF /\ l - 1 >= line /\ l - 1 < line + chunk_lines
               /\ s - 1 >= sample /\ s - 1 < sample + chunk_samples
            THEN tile[l - line][s - sample]
            ELSE band[l][s]]]

\* A variant with the two inner loops exchanged: tile columns outside tile
\* rows.
TileVisits_ColumnOuter ==
    LET ls == range(0, lines, tile_lines)
        ss == range(0, samples, tile_samples)
    IN  Flatten([b \in 1..bands |->
            Flatten([j \in 1..Len(ss) |->
                [i \in 1..Len(ls) |-> <<b, ls[i], ss[j]>>]])])

\* The places the loops visit, in the order they visit them:
\* for band in data: for line in lines: for sample in samples.
TileVisits ==
    LET ls == range(0, lines, tile_lines)
        ss == range(0, samples, tile_samples)
    IN  Flatten([b \in 1..bands |->
            Flatten([i \in 1..Len(ls) |->
                [j \in 1..Len(ss) |-> <<b, ls[i], ss[j]>>]])])

\* The body of the innermost loop for each visit in turn.
RECURSIVE TileLoop(_, _, _, _)
TileLoop(visits, pos, out, dt) ==
    IF visits = <<>> THEN [ok |-> TRUE, pos |-> pos, v |-> out]
    ELSE LET b == Head(visits)[1]
             line == Head(visits)[2]
             sample == Head(visits)[3]
             tile_size == tile_lines * tile_samples
             rd == fromfile(pos, dt, tile_size)
             tile == reshape2(rd.a, tile_lines, tile_samples)
         IN  IF ~tile.ok THEN tile
             ELSE TileLoop(Tail(visits), rd.pos,
                           [out EXCEPT ![b] = StoreChunk(out[b], tile.v, line, sample)],
                           dt)

_parse_tile_data(pos) ==
    LET t == dtype
        r == TileLoop(TileVisits, pos, empty(shape), t.dt)
    IN  IF ~t.ok THEN t
        ELSE IF ~r.ok THEN r
        ELSE [ok |-> TRUE, pos |-> r.pos,
              data |-> [dtype |-> t.dt, shape |-> shape, v |-> r.v]]

\* stream.seek(self.start_byte), then the decoder the format names.
_parse_data ==
    IF format = "BandSequential" THEN _parse_band_sequential_data(start_byte)
    ELSE IF format = "Tile" THEN _parse_tile_data(start_byte)
    ELSE Raise("Exception")

\* self.label = self._parse_label(stream); self.data = self._parse_data(stream)
\* A label pvl cannot parse raises there, before any data is read.
Decode ==
    IF ~labelOK THEN Raise("ParseError") ELSE _parse_data

(***************************************************************************)
(* Floating point and fixed-width integer arithmetic.                      *)
(***************************************************************************)
\* The place of a float in the order of the reals: its class, then its
\* position within the class.
Cls(x) ==
    CASE x.k = "inf" -> IF x.v < 0 THEN 0 ELSE 4
      [] x.k = "ext" -> IF x.v < 0 THEN 1 ELSE 3
      [] OTHER -> 2

Within(x) ==
    CASE x.k = "ext" -> IF x.v < 0 THEN x.u ELSE 0 - x.u
      [] x.k = "fin" -> x.v
      [] OTHER -> 0

\* Comparisons: every comparison with not-a-number is false.
FLt(x, y) ==
    /\ x.k # "nan" /\ y.k # "nan"
    /\ \/ Cls(x) < Cls(y)
       \/ Cls(x) = Cls(y) /\ Within(x) < Within(y)

FEq(x, y) == x.k # "nan" /\ y.k # "nan" /\ x = y

FLe(x, y) == FLt(x, y) \/ FEq(x, y)

\* An integer wrapped to the width of an integer dtype.  The checker's own
\* integers are 32 bits wide, so a 32-bit value is its own wrapping.
Wrap(x, name) ==
    CASE name = "uint8" -> x % 256
      [] name = "int8" -> ((x + 128) % 256) - 128
      [] name = "uint16" -> x % 65536
      [] name = "int16" -> ((x + 32768) % 65536) - 32768
      [] OTHER -> x

\* numpy's integer division: floored, and 0 (with a warning) for a zero
\* divisor.
FloorDiv(a, b) ==
    IF b = 0 THEN 0
    ELSE IF b > 0 THEN a \div b
    ELSE (0 - a) \div (0 - b)

(***************************************************************************)
(* Arrays.                                                                 *)
(***************************************************************************)
Flat(arr) == Flatten(Flatten(arr.v))

Array(dt, shp, flat) == [dtype |-> dt, shape |-> shp, v |-> reshape3(flat, shp).v]

\* An element as a float: an integer converts exactly.
AsFloat(x, dt) == IF IsFloat(dt.name) THEN x ELSE Fin(x)

\* arr.astype(np.float64): a new array.
astype_float64(arr) ==
    LET d == Flat(arr)
    IN  Array(float64, arr.shape, [i \in 1..Len(d) |-> AsFloat(d[i], arr.dtype)])

\* A value of the specials table as a float.
SpF(name) ==
    IF label.Type \in {"Real", "Double"} THEN specials.t[name]
    ELSE Fin(specials.t[name])

(***************************************************************************)
(* apply_scaling (cubefile.py, lines 58-88).  Base and Multiplier are      *)
(* Python floats, as pvl yields them for "Base = 0.0".                     *)
(***************************************************************************)
\* x * m for a float x and the float m >= 1: a sentinel or Max times more
\* than one overflows to infinity.
FMul(x, m) ==
    CASE x.k = "fin" -> Fin(m * x.v)
      [] x.k = "ext" -> IF m = 1 THEN x ELSE Inf(x.v)
      [] OTHER -> x

\* x + b for a float x and a small float b: next to a sentinel or Max, b
\* is less than half a unit in the last place.
FAdd(x, b) ==
    CASE x.k = "fin" -> Fin(x.v + b)
      [] OTHER -> x

\* self.multiplier * self.data + self.base: a float array, new.
ScaledCopy ==
    LET dt == IF IsFloat(data.dtype.name)
              THEN [name |-> data.dtype.name, order |-> build.native]
              ELSE float64
        d == Flat(data)
    IN  Array(dt, data.shape,
              [i \in 1..Len(d) |-> FAdd(FMul(AsFloat(d[i], data.dtype), multiplier), base)])

\* self.data *= m; self.data += b: numpy refuses to store the float result
\* in an integer array (the To-Do of the docstring).
ScaledInPlace ==
    LET isf == IsFloat(data.dtype.name)
        d == Flat(data)
        d1 == IF multiplier # 1
              THEN [i \in 1..Len(d) |-> FMul(d[i], multiplier)]
              ELSE d
        d2 == IF base # 0
              THEN [i \in 1..Len(d1) |-> FAdd(d1[i], base)]
              ELSE d1
    IN  IF (multiplier # 1 \/ base # 0) /\ ~isf THEN Raise("TypeError")
        ELSE [ok |-> TRUE, data |-> Array(data.dtype, data.shape, d2)]

\* The outcome of apply_scaling: what it returns and what self.data is
\* afterwards.
apply_scaling(copy) ==
    LET r == ScaledInPlace
    IN  IF copy THEN [ok |-> TRUE, a |-> ScaledCopy, data |-> data]
        ELSE IF ~r.ok THEN [ok |-> FALSE, err |-> r.err, data |-> data]
        ELSE [ok |-> TRUE, a |-> r.data, data |-> r.data]

(***************************************************************************)
(* apply_numpy_specials (cubefile.py, lines 90-131).                       *)
(***************************************************************************)
\* The three masked assignments, in the order of the code, on one element.
SetNan(x) == IF FEq(x, SpF("Null")) THEN NaN ELSE x

SetNinf(x) == IF FLt(x, SpF("Min")) THEN Inf(-1) ELSE x

SetInf(x) == IF FLt(SpF("Max"), x) THEN Inf(1) ELSE x

\* A variant that makes the Null assignment last.
NumpySpecial_NullLast(x) == SetNan(SetInf(SetNinf(x)))

NumpySpecial(x) == SetInf(SetNinf(SetNan(x)))

\* A variant whose copy of a float64 array is the array itself
\* (astype(..., copy=False)).
SpecialsTarget_Aliasing(copy) ==
    IF data.dtype # float64 THEN [a |-> astype_float64(data), bound |-> ~copy]
    ELSE [a |-> data, bound |-> TRUE]

\* The array the assignments are made on, and whether self.data is bound
\* to it.
SpecialsTarget(copy) ==
    IF copy THEN [a |-> astype_float64(data), bound |-> FALSE]
    ELSE IF data.dtype # float64 THEN [a |-> astype_float64(data), bound |-> TRUE]
    ELSE [a |-> data, bound |-> TRUE]

apply_numpy_specials(copy) ==
    LET tg == SpecialsTarget(copy)
        held == IF tg.bound THEN tg.a ELSE data
        d == Flat(tg.a)
        out == Array(float64, data.shape, [i \in 1..Len(d) |-> NumpySpecial(d[i])])
    IN  IF ~specials.ok THEN [ok |-> FALSE, err |-> specials.err, data |-> held]
        ELSE [ok |-> TRUE, a |-> out, data |-> IF tg.bound THEN out ELSE data]

(***************************************************************************)
(* specials_mask (cubefile.py, lines 133-146).                             *)
(***************************************************************************)
Valid(x) == FLe(SpF("Min"), x) /\ FLe(x, SpF("Max"))

bool == [name |-> "bool", order |-> "|"]

specials_mask ==
    LET d == Flat(data)
    IN  IF ~specials.ok THEN specials
        ELSE [ok |-> TRUE,
              a |-> Array(bool, data.shape,
                          [i \in 1..Len(d) |-> Valid(AsFloat(d[i], data.dtype))])]

(***************************************************************************)
(* get_image_array (cubefile.py, lines 148-179).                           *)
(***************************************************************************)
uint8 == [name |-> "uint8", order |-> "|"]

\* A float outside 0..255 cast to uint8 is undefined in C; the common
\* builds give 0 (truncation of the converted word) or saturate.
UBCast == {0, 255}

\* x.astype(np.uint8) for one element of a float array.
CastFloat(x) ==
    IF x.k = "fin" /\ x.v >= 0 /\ x.v <= 255 THEN {x.v}
    ELSE IF x.k = "fin" THEN UBCast \cup {x.v % 256}
    ELSE UBCast

\* Every sequence that takes its i-th element from the i-th set.
RECURSIVE Choices(_)
Choices(sets) ==
    IF sets = <<>> THEN {<<>>}
    ELSE {<<x>> \o rest : x \in Head(sets), rest \in Choices(Tail(sets))}

\* The least and the greatest of a non-empty set of integers.
MinOf(S) == CHOOSE x \in S : \A y \in S : x <= y

MaxOf(S) == CHOOSE x \in S : \A y \in S : y <= x

\* A variant that stretches every pixel, not only the valid ones.
IntStretch_Unmasked(d, m, name) ==
    LET idx == {i \in 1..Len(d) : m[i]}
        mn == MinOf({d[i] : i \in idx})
        d1 == [i \in 1..Len(d) |-> Wrap(d[i] - mn, name)]
        mx == MaxOf({d1[i] : i \in idx})
        f == FloorDiv(255, mx)
        d2 == [i \in 1..Len(d) |-> Wrap(d1[i] * f, name)]
        d3 == [i \in 1..Len(d) |-> IF d2[i] = specials.t.His THEN 255 ELSE d2[i]]
        d4 == [i \in 1..Len(d) |-> IF d3[i] = specials.t.Hrs THEN 255 ELSE d3[i]]
    IN  IF build.py3 THEN {Raise("TypeError")}
        ELSE {[ok |-> TRUE, flat |-> [i \in 1..Len(d) |-> d4[i] % 256]]}

\* The stretch of an integer array, in the array's own dtype.
\*   data[mask] -= data[mask].min()
\*   data[mask] *= 255 / data[mask].max()
\* Under Python 3 the quotient is a float, which numpy refuses to store in
\* the integer array; under Python 2 it is numpy's integer quotient.
IntStretch(d, m, name) ==
    LET idx == {i \in 1..Len(d) : m[i]}
        mn == MinOf({d[i] : i \in idx})
        d1 == [i \in 1..Len(d) |-> IF m[i] THEN Wrap(d[i] - mn, name) ELSE d[i]]
        mx == MaxOf({d1[i] : i \in idx})
        f == FloorDiv(255, mx)
        d2 == [i \in 1..Len(d) |-> IF m[i] THEN Wrap(d1[i] * f, name) ELSE d1[i]]
        d3 == [i \in 1..Len(d) |-> IF d2[i] = specials.t.His THEN 255 ELSE d2[i]]
        d4 == [i \in 1..Len(d) |-> IF d3[i] = specials.t.Hrs THEN 255 ELSE d3[i]]
    IN  IF build.py3 THEN {Raise("TypeError")}
        ELSE {[ok |-> TRUE, flat |-> [i \in 1..Len(d) |-> d4[i] % 256]]}

\* A difference of valid floats too large to be an integer of the model.
Big == [k |-> "big", v |-> 1, u |-> 0]

\* x - mn for valid floats mn <= x.
FSub(x, mn) ==
    CASE x = mn -> Fin(0)
      [] x.k = "fin" /\ mn.k = "fin" -> Fin(x.v - mn.v)
      [] x.k = "ext" /\ mn.k = "ext" /\ x.v > 0 /\ mn.v < 0 -> Inf(1)
      [] x.k = "fin" /\ mn.k = "ext" /\ mn.v < 0 -> Big
      [] x.k = "ext" /\ x.v > 0 /\ mn.k = "fin" -> Big

\* The order of such differences.
DRank(x) ==
    CASE x.k = "fin" -> <<0, x.v>>
      [] x.k = "big" -> <<1, 0>>
      [] x.k = "inf" -> <<2, 0>>

DLe(x, y) ==
    \/ DRank(x)[1] < DRank(y)[1]
    \/ DRank(x)[1] = DRank(y)[1] /\ DRank(x)[2] <= DRank(y)[2]

\* Whether the float 255 / k is exact: k is a divisor of 255 times a power
\* of two.
RECURSIVE OddPart(_)
OddPart(k) == IF k % 2 = 0 THEN OddPart(k \div 2) ELSE k

ExactQuot(k) == 255 % OddPart(k) = 0

\* (d * (255 / mx)).astype(uint8) for a valid pixel whose difference from
\* the minimum is d, the greatest difference being mx.  Where the quotient
\* 255 / mx is rounded and the exact product is an integer, the rounded
\* product may fall just below it.
StretchFloat(d, mx) ==
    CASE d.k = "inf" -> UBCast
      [] d.k = "big" -> IF mx.k = "inf" THEN {0} ELSE {254, 255}
      [] d.k = "fin" /\ d.v = 0 -> IF mx = Fin(0) THEN UBCast ELSE {0}
      [] d.k = "fin" /\ d.v # 0 ->
            IF mx.k # "fin" THEN {0}
            ELSE IF ExactQuot(mx.v) \/ (255 * d.v) % mx.v # 0
                 THEN {(255 * d.v) \div mx.v}
            ELSE {(255 * d.v) \div mx.v - 1, (255 * d.v) \div mx.v}

\* The stretch of a float array, then the two assignments of 255 and the
\* cast, element by element.
FloatStretch(d, m) ==
    LET idx == {i \in 1..Len(d) : m[i]}
        mn == CHOOSE x \in {d[i] : i \in idx} : \A i \in idx : FLe(x, d[i])
        d1 == [i \in 1..Len(d) |-> IF m[i] THEN FSub(d[i], mn) ELSE d[i]]
        mx == CHOOSE x \in {d1[i] : i \in idx} : \A i \in idx : DLe(d1[i], x)
        outs == [i \in 1..Len(d) |->
                   IF m[i] THEN StretchFloat(d1[i], mx)
                   ELSE IF FEq(d[i], SpF("His")) \/ FEq(d[i], SpF("Hrs")) THEN {255}
                   ELSE CastFloat(d[i])]
    IN  {[ok |-> TRUE, flat |-> f] : f \in Choices(outs)}

\* The outcomes of get_image_array; the stretch works on self.data.copy(),
\* so self.data is afterwards what it was.
get_image_array ==
    LET mask == specials_mask
        d == Flat(data)
        m == Flat(mask.a)
        rs == IF IsFloat(data.dtype.name) THEN FloatStretch(d, m)
              ELSE IntStretch(d, m, data.dtype.name)
        held == data
    IN  IF ~mask.ok THEN {[ok |-> FALSE, err |-> mask.err, data |-> held]}
        ELSE IF \A i \in 1..Len(d) : ~m[i]
             THEN {[ok |-> FALSE, err |-> "ValueError", data |-> held]}
        ELSE {IF r.ok
              THEN [ok |-> TRUE, a |-> Array(uint8, data.shape, r.flat), data |-> held]
              ELSE [ok |-> FALSE, err |-> r.err, data |-> held] : r \in rs}

(***************************************************************************)
(* Construction (cubefile.py, lines 15-56).                                *)
(***************************************************************************)
\* What __init__ leaves behind once the stream is at hand.
Constructed(r) ==
    /\ pc' = IF r.ok THEN "loaded" ELSE "failed"
    /\ err' = IF r.ok THEN "none" ELSE r.err
    /\ data' = IF r.ok THEN r.data ELSE None
    /\ ret' = None
    /\ scalings' = 0
    /\ UNCHANGED <<file, label, labelOK, build>>

\* CubeFile.open(filename): the with statement closes the stream however
\* the constructor ends.
open ==
    /\ pc = "start"
    /\ LET r == Decode
       IN  /\ Constructed(r)
           /\ fp' = [owner |-> "code", closed |-> TRUE, pos |-> IF r.ok THEN r.pos ELSE 0]
    /\ lastOp' = <<"open">>

\* CubeFile(filename): the constructor opens the file itself and nothing
\* closes it.
InitFromFilename ==
    /\ pc = "start"
    /\ LET r == Decode
       IN  /\ Constructed(r)
           /\ fp' = [owner |-> "code", closed |-> FALSE, pos |-> IF r.ok THEN r.pos ELSE 0]
    /\ lastOp' = <<"init", "filename">>

\* CubeFile(stream): the stream is the caller's.
InitFromStream ==
    /\ pc = "start"
    /\ LET r == Decode
       IN  /\ Constructed(r)
           /\ fp' = [owner |-> "caller", closed |-> FALSE, pos |-> IF r.ok THEN r.pos ELSE 0]
    /\ lastOp' = <<"init", "stream">>

\* The file object the constructor opened is referenced by nothing once
\* the constructor is over; the runtime may close it when it collects it.
Finalize ==
    /\ pc # "start"
    /\ fp.owner = "code" /\ ~fp.closed
    /\ fp' = [fp EXCEPT !.closed = TRUE]
    /\ UNCHANGED <<file, label, labelOK, build, pc, err, data, ret, lastOp, scalings>>

(***************************************************************************)
(* The transform calls on a cube that was loaded.                          *)
(***************************************************************************)
Returned(r) ==
    /\ err' = IF r.ok THEN "none" ELSE r.err
    /\ ret' = IF r.ok THEN r.a ELSE None
    /\ UNCHANGED <<file, label, labelOK, build, pc, fp>>

ApplyScaling ==
    /\ pc = "loaded"
    /\ \E copy \in BOOLEAN :
         LET r == apply_scaling(copy)
         IN  /\ r.data # data => scalings < MaxScalings
             /\ scalings' = IF r.data # data THEN scalings + 1 ELSE scalings
             /\ Returned(r)
             /\ data' = r.data
             /\ lastOp' = <<"apply_scaling", copy>>

ApplyNumpySpecials ==
    /\ pc = "loaded"
    /\ \E copy \in BOOLEAN :
         LET r == apply_numpy_specials(copy)
         IN  /\ Returned(r)
             /\ data' = r.data
             /\ lastOp' = <<"apply_numpy_specials", copy>>
    /\ UNCHANGED scalings

SpecialsMask ==
    /\ pc = "loaded"
    /\ Returned(specials_mask)
    /\ lastOp' = <<"specials_mask">>
    /\ UNCHANGED <<data, scalings>>

GetImageArray ==
    /\ pc = "loaded"
    /\ \E r \in get_image_array : Returned(r) /\ data' = r.data
    /\ lastOp' = <<"get_image_array">>
    /\ UNCHANGED scalings

(***************************************************************************)
(* The files and labels the model starts from.                             *)
(***************************************************************************)
\* An integer as width bytes, most significant first.
ToBytes(x, width) == [i \in 1..width |-> (x \div Pow(256, width - i)) % 256]

\* The bytes of one element as they lie in a file of the given byte order.
InOrder(b, order) == IF order = "<" THEN Rev(b) ELSE b

Fresh ==
    /\ pc = "start"
    /\ err = "none"
    /\ data = None
    /\ ret = None
    /\ lastOp = <<>>
    /\ scalings = 0
    /\ fp = [owner |-> "none", closed |-> FALSE, pos |-> 0]

\* Decoding: one band or MaxBands, every line, sample and tile count
\* within the bounds, the data at the first byte or at byte MaxStartByte,
\* both layouts and a format that is neither, the file cut short by up
\* to MaxShort bytes or one byte longer than needed; byte p of the file
\* is a pattern of p.
FileByte(p) == (37 * p + 11) % 256

DecodeTypes == {"UnsignedByte", "SignedWord", "SignedByte", "Complex"}

DecodeOrders == {"Lsb", "Msb", "NoByteOrder", "Vax"}

Width(t) == IF t \in DOMAIN PIXEL_TYPES THEN itemsize(PIXEL_TYPES[t]) ELSE 1

CeilDiv(a, b) == (a + b - 1) \div b

\* The bytes the data region of a cube with label lb takes on disk.
DataBytes(lb) ==
    Width(lb.Type) *
    (IF lb.Format = "Tile"
     THEN lb.Bands * CeilDiv(lb.Lines, lb.TileLines) * CeilDiv(lb.Samples, lb.TileSamples)
          * lb.TileLines * lb.TileSamples
     ELSE lb.Bands * lb.Lines * lb.Samples)

DecodeLabels ==
    {lb \in [Bands : {1, MaxBands}, Lines : 1..MaxLines, Samples : 1..MaxSamples,
             Format : {"BandSequential", "Tile", "BandInterleaved"},
             TileLines : 0..MaxTile, TileSamples : 0..MaxTile,
             Type : DecodeTypes, ByteOrder : DecodeOrders,
             StartByte : {1, MaxStartByte}, Base : {0}, Multiplier : {1}] :
        /\ (lb.Format = "Tile") = (lb.TileLines # 0)
        /\ (lb.Format = "Tile") = (lb.TileSamples # 0)
        /\ (Width(lb.Type) = 1 \/ lb.Type \notin DOMAIN PIXEL_TYPES)
              => lb.ByteOrder = "Lsb"}

\* A file whose label pvl cannot parse has no label to speak of.
InitDecode ==
    /\ Fresh
    /\ \/ /\ labelOK = TRUE
          /\ label \in DecodeLabels
          /\ build \in [py3 : {TRUE},
                        native : IF label.ByteOrder = "NoByteOrder"
                                 THEN {"<", ">"} ELSE {"<"}]
          /\ \E cut \in -1..MaxShort :
               LET n == label.StartByte - 1 + DataBytes(label) - cut
               IN  /\ n >= 0
                   /\ file = [p \in 1..n |-> FileByte(p)]
       \/ /\ labelOK = FALSE
          /\ label = None
          /\ build = [py3 |-> TRUE, native |-> "<"]
          /\ \E n \in 0..MaxShort : file = [p \in 1..n |-> FileByte(p)]

NextDecode == open \/ InitFromFilename \/ InitFromStream \/ Finalize

SpecDecode == InitDecode /\ [][NextDecode]_vars

\* Pixels: a single line of up to MaxPix pixels, each one of the values of
\* interest of its encoding, written in the byte order of the label.
IntPixels ==
    [UnsignedByte |-> {0, 1, 7, 254, 255},
     UnsignedWord |-> {0, 1, 2, 3, 10, 65523, 65524, 65534, 65535},
     SignedWord |-> {-32768, -32767, -32766, -32765, -32764, -32763, 0, 7, 32767},
     SignedInteger |-> {-8388614, -8388613, -8388612, -8388611, -8388610,
                        -8388609, -8388608, 0, 7},
     SignedByte |-> {-1, 7},
     UnsignedInteger |-> {0, 7}]

\* Byte patterns of floats, most significant byte first: the six patterns
\* of the table, the largest finite value, 0.0, 3.0, +infinity and a NaN.
RealPixels ==
    {<<255, 127, 255, x>> : x \in 250..255} \cup
    {<<127, 127, 255, 255>>, <<0, 0, 0, 0>>, <<64, 64, 0, 0>>,
     <<127, 128, 0, 0>>, <<127, 192, 0, 0>>}

DoublePixels ==
    {<<255, 239, 255, 255, 255, 255, 255, x>> : x \in 250..255} \cup
    {<<127, 239, 255, 255, 255, 255, 255, 255>>, <<0, 0, 0, 0, 0, 0, 0, 0>>,
     <<64, 8, 0, 0, 0, 0, 0, 0>>, <<127, 240, 0, 0, 0, 0, 0, 0>>,
     <<127, 248, 0, 0, 0, 0, 0, 0>>}

PixelBytes(t) ==
    CASE t = "Real" -> RealPixels
      [] t = "Double" -> DoublePixels
      [] OTHER -> {ToBytes(x, Width(t)) : x \in IntPixels[t]}

\* The first two pixels range over all the values of interest; a pixel
\* after them is a valid value.
FillerBytes(t) ==
    CASE t = "Real" -> {<<64, 64, 0, 0>>}
      [] t = "Double" -> {<<64, 8, 0, 0, 0, 0, 0, 0>>}
      [] OTHER -> {ToBytes(7, Width(t))}

PixelChoices(t, i) == IF i <= 2 THEN PixelBytes(t) ELSE FillerBytes(t)

PixelLabels ==
    {lb \in [Bands : {1}, Lines : {1}, Samples : {MaxPix},
             Format : {"BandSequential"}, TileLines : {0}, TileSamples : {0},
             Type : DOMAIN PIXEL_TYPES, ByteOrder : {"Lsb"},
             StartByte : {1}, Base : {0, -1}, Multiplier : {1, 2}] :
        /\ (lb.Multiplier = 1) = (lb.Base = 0)
        /\ lb.Type \in {"SignedInteger", "UnsignedInteger"} => lb.Multiplier = 1}

Init ==
    /\ Fresh
    /\ labelOK = TRUE
    /\ label \in PixelLabels
    /\ build \in [py3 : BOOLEAN, native : {"<"}]
    /\ \E px \in [1..label.Samples -> PixelBytes(label.Type)] :
         /\ \A i \in 1..label.Samples : px[i] \in PixelChoices(label.Type, i)
         /\ file = Flatten([i \in 1..label.Samples |->
                           InOrder(px[i], BYTE_ORDERS[label.ByteOrder])])

Next ==
    \/ InitFromStream
    \/ ApplyScaling
    \/ ApplyNumpySpecials
    \/ SpecialsMask
    \/ GetImageArray

Spec == Init /\ [][Next]_vars

(***************************************************************************)
(* Properties of decoding, checked under SpecDecode.                       *)
(***************************************************************************)
\* The element at index i of the stream, counted from the data start
\* offset, StartByte - 1.
StreamElement(i) ==
    LET w == itemsize(dtype.dt.name)
        off == label.StartByte - 1
    IN  ElementFromBytes(SubSeq(file, off + i * w + 1, off + (i + 1) * w), dtype.dt)

TileRows == (lines + tile_lines - 1) \div tile_lines

TileCols == (samples + tile_samples - 1) \div tile_samples

\* C1: after a tiled decode, the output cell (b, l, s) holds the stream
\* element at index ((b*R + l div tile_lines)*C + s div tile_samples)
\* * tile_lines*tile_samples + (l mod tile_lines)*tile_samples
\* + (s mod tile_samples), with R and C the numbers of tile rows and
\* columns; the output has the shape (bands, lines, samples), and the stream
\* has advanced by bands*R*C full tiles.
C1_TileLayout ==
    (pc = "loaded" /\ format = "Tile") =>
        /\ data.shape = <<bands, lines, samples>>
        /\ \A b \in 0..bands - 1 : \A l \in 0..lines - 1 : \A sm \in 0..samples - 1 :
              data.v[b + 1][l + 1][sm + 1] =
                StreamElement(
                    ((b * TileRows + l \div tile_lines) * TileCols + sm \div tile_samples)
                      * tile_lines * tile_samples
                    + (l % tile_lines) * tile_samples + (sm % tile_samples))
        /\ fp.pos = label.StartByte - 1
                    + bands * TileRows * TileCols * tile_lines * tile_samples
                      * itemsize(dtype.dt.name)

\* A tiled cube of several bands was decoded whose lines and samples are not
\* multiples of the tile size and take more than one tile each way.
C1_Witness ==
    /\ pc = "loaded" /\ format = "Tile"
    /\ bands > 1
    /\ lines > tile_lines /\ lines % tile_lines # 0
    /\ samples > tile_samples /\ samples % tile_samples # 0
    /\ label.StartByte > 1

\* C2: after a band-sequential decode, the output cell (b, l, s) holds the
\* stream element at index (b*lines + l)*samples + s counted from
\* StartByte - 1, and exactly bands*lines*samples elements were consumed.
C2_BandSequentialLayout ==
    (pc = "loaded" /\ format = "BandSequential") =>
        /\ data.shape = <<bands, lines, samples>>
        /\ \A b \in 0..bands - 1 : \A l \in 0..lines - 1 : \A sm \in 0..samples - 1 :
              data.v[b + 1][l + 1][sm + 1] = StreamElement((b * lines + l) * samples + sm)
        /\ fp.pos = label.StartByte - 1
                    + bands * lines * samples * itemsize(dtype.dt.name)

\* A band-sequential cube of more than one band, line and sample was
\* decoded from a start byte beyond the first.
C2_Witness ==
    /\ pc = "loaded" /\ format = "BandSequential"
    /\ bands > 1 /\ lines > 1 /\ samples > 1
    /\ label.StartByte > 1

\* The six encodings of the special-pixel registry.
RegistryEncodings ==
    {"UnsignedByte", "UnsignedWord", "SignedWord", "SignedInteger", "Real", "Double"}

\* C6: a cube whose pixel type is outside the six registry encodings is
\* never loaded: its construction fails.
C6_UnsupportedEncodingFailsDecode ==
    (pc # "start" /\ labelOK /\ label.Type \notin RegistryEncodings) => pc = "failed"

\* The bytes a decode of the label's geometry has to read.
RequiredBytes ==
    itemsize(dtype.dt.name) *
    (IF format = "Tile"
     THEN bands * TileRows * TileCols * tile_lines * tile_samples
     ELSE bands * lines * samples)

\* C7: when the file ends before the last required read is complete, the
\* construction fails with an error and leaves no array.
C7_TruncatedFails ==
    (/\ pc # "start" /\ labelOK
     /\ format \in {"BandSequential", "Tile"} /\ dtype.ok
     /\ Len(file) < label.StartByte - 1 + RequiredBytes)
    => (pc = "failed" /\ err = "ValueError" /\ data = None)

\* A tiled decode failed although only padding of the last, clipped tile is
\* missing: the file holds the tile's valid sub-rectangle in full.
C7_Witness ==
    /\ pc = "failed" /\ labelOK /\ format = "Tile" /\ dtype.ok
    /\ lines % tile_lines # 0
    /\ LET w == itemsize(dtype.dt.name)
           chunk_lines == lines % tile_lines
           chunk_samples == IF samples % tile_samples = 0 THEN tile_samples
                            ELSE samples % tile_samples
           lastTile == label.StartByte - 1 + RequiredBytes - tile_lines * tile_samples * w
       IN  /\ Len(file) >= lastTile + ((chunk_lines - 1) * tile_samples + chunk_samples) * w
           /\ Len(file) < label.StartByte - 1 + RequiredBytes

\* C8: once construction is over, however it ended, a stream the code
\* itself opened is closed.
C8_OwnStreamClosed ==
    (pc # "start" /\ fp.owner = "code") => fp.closed

(***************************************************************************)
(* Properties of the registry and of the transforms, checked under Spec.   *)
(***************************************************************************)
Sentinels == {"Null", "Lrs", "Lis", "His", "Hrs"}

\* The array as decode produced it, and its elements as floats.
Raw == Decode.data

\* self.data is still the array as decoded.
Untouched == data.dtype = Raw.dtype /\ data = Raw

RawF == [i \in 1..Len(Flat(Raw)) |-> AsFloat(Flat(Raw)[i], Raw.dtype)]

\* C3 as claimed: for the encoding of a loaded cube, Min <= Max, the five
\* sentinels are pairwise distinct, and none of them lies in [Min, Max].
C3_RegistryAsClaimed ==
    (pc = "loaded" /\ specials.ok) =>
        /\ FLe(SpF("Min"), SpF("Max"))
        /\ \A a \in Sentinels : \A b \in Sentinels : a # b => SpF(a) # SpF(b)
        /\ \A a \in Sentinels : ~Valid(SpF(a))

\* C3, amended: for the encoding of a loaded cube, Min <= Max and none of
\* the five sentinels lies in [Min, Max]; the five are pairwise distinct
\* for every encoding but UnsignedByte, where Null, Lrs and Lis are all 0
\* and His and Hrs are both 255.
C3_Registry ==
    (pc = "loaded" /\ specials.ok) =>
        /\ FLe(SpF("Min"), SpF("Max"))
        /\ \A a \in Sentinels : ~Valid(SpF(a))
        /\ label.Type # "UnsignedByte" =>
              \A a \in Sentinels : \A b \in Sentinels : a # b => SpF(a) # SpF(b)
        /\ label.Type = "UnsignedByte" =>
              /\ \A a \in {"Null", "Lrs", "Lis"} : SpF(a) = Fin(0)
              /\ \A a \in {"His", "Hrs"} : SpF(a) = Fin(255)

\* The special values of an UnsignedByte cube were resolved by a call.
C3_Witness ==
    /\ pc = "loaded" /\ label.Type = "UnsignedByte"
    /\ lastOp = <<"specials_mask">> /\ err = "none"

C5_SaturationBuckets ==
    (/\ lastOp = <<"apply_numpy_specials", TRUE>> /\ err = "none"
     /\ pc = "loaded" /\ Untouched)
    => \A i \in 1..Len(RawF) :
         LET v == RawF[i]
             r == Flat(ret)[i]
         IN  /\ (FEq(v, SpF("Lrs")) \/ FEq(v, SpF("Lis"))) => r = Inf(-1)
             /\ (FEq(v, SpF("His")) \/ FEq(v, SpF("Hrs"))) => r = Inf(1)
             /\ (r = NaN /\ v # NaN) => FEq(v, SpF("Null"))

\* C9: a call of apply_scaling(copy=True), apply_numpy_specials(copy=True),
\* specials_mask() or get_image_array() leaves self.data as it was: the
\* same values, element type and shape.
C9_CopiesKeepData ==
    [][lastOp' \in {<<"apply_scaling", TRUE>>, <<"apply_numpy_specials", TRUE>>,
                    <<"specials_mask">>, <<"get_image_array">>}
       => data' = data]_vars

\* get_image_array returned an array that differs from self.data, which is
\* still the array as decoded.
C9_Witness ==
    /\ lastOp = <<"get_image_array">> /\ err = "none"
    /\ pc = "loaded" /\ Untouched
    /\ (ret.dtype # data.dtype \/ ret.v # data.v)

\* The cast of a raw element to uint8.
CastRaw(x, dt) == IF IsFloat(dt.name) THEN CastFloat(x) ELSE {x % 256}

====
